---- MODULE Spec2Model ----
(***************************************************************************)
(* save_dummy.py: a straight-line driver script.  It builds a pystyl       *)
(* Corpus, loads a directory, preprocesses, tokenizes and vectorizes it,   *)
(* copies four values out of the corpus object and pickles them to         *)
(* "dummy.p".                                                              *)
(*                                                                         *)
(* The script's own code is modelled statement by statement.  The pystyl   *)
(* library is not part of the repository: each of its calls is a step that *)
(* either returns (leaving unconstrained values in the corpus object) or   *)
(* raises.  Python has no try/except here, so a raised exception ends the  *)
(* interpreter with exit status 1.                                         *)
(***************************************************************************)
EXTENDS Integers, Sequences, FiniteSets, TLC

VARIABLES
    pc,        \* the statement about to run, or "done" / "failed"
    corpus,    \* the attributes of the Corpus object the script reads
    X,         \* script variable X       (line 7)
    titles,    \* script variable titles  (line 9)
    authors,   \* script variable authors (line 11)
    words,     \* script variable words   (line 13)
    dumpArg,   \* the tuple built as first argument of pickle.dump (line 16)
    written,   \* how many components pickle.dump has written so far
    opens,     \* how many times the script opened a file for writing
    fs,        \* the filesystem: path -> file
    fs0,       \* the filesystem as it was when the script started
    stdout,    \* what the print statements wrote
    log,       \* the pipeline stages that returned, in order
    failedAt,  \* the statement that raised, <<>> if none did
    exit       \* the interpreter's exit status: <<>> while running

vars == <<pc, corpus, X, titles, authors, words, dumpArg, written, opens,
          fs, fs0, stdout, log, failedAt, exit>>

----------------------------------------------------------------------------
(* Bounds of the model *)

MaxDocs == 2

----------------------------------------------------------------------------
(* Helpers *)

Seqs(S, n) == UNION {[1..k -> S] : k \in 0..n}

Prefixes(s) == {SubSeq(s, 1, k) : k \in 0..Len(s)}

IsPrefix(s, t) == Len(s) <= Len(t) /\ SubSeq(t, 1, Len(s)) = s

Min(a, b) == IF a <= b THEN a ELSE b

----------------------------------------------------------------------------
(* The values the library calls may leave behind *)

TitleNames == {"a.txt", "b.txt"}

AuthorNames == <<"Smith", "Jones">>

TermNames == <<"the", "of">>

ColSamples == {0, Len(TermNames)}

\* A scipy sparse matrix: its shape and its stored (row, column, value) entries.
SparseSamples ==
    {[shape |-> <<r, c>>, nz |-> {<<i, i, i>> : i \in 1..Min(r, c)}] :
        r \in 0..MaxDocs, c \in ColSamples}

NoMatrix == [shape |-> <<0, 0>>, nz |-> {}]

\* Corpus(language='en'): nothing loaded yet.
EmptyCorpus ==
    [titles |-> <<>>, target_idx |-> <<>>, target_ints |-> <<>>,
     X |-> NoMatrix, feature_names |-> <<>>]

----------------------------------------------------------------------------
(* Files *)

TargetPath == "dummy.p"

OtherPath == "other.p"

Paths == {TargetPath, OtherPath}

Absent == [exists |-> FALSE, items |-> <<>>, stop |-> FALSE]

\* A pickle stream: the tuple's components in order, then the STOP opcode.
CompleteFile(t) == [exists |-> TRUE, items |-> t, stop |-> TRUE]

OldArtifact == CompleteFile(<<<<"old.txt">>, <<"Old">>, <<"a">>, <<<<1>>>>>>)

OldPartial == [exists |-> TRUE, items |-> <<<<"old.txt">>>>, stop |-> FALSE]

InitialFiles == {Absent, OldArtifact, OldPartial}

\* open(path, "ab") would keep what the file holds.
OpenAB(f) == [exists |-> TRUE, items |-> f.items, stop |-> f.stop]

\* open(path, "wb"): the file is created, or truncated to nothing.
OpenWB(f) == [exists |-> TRUE, items |-> <<>>, stop |-> FALSE]

----------------------------------------------------------------------------
(* Pure functions of the script *)

\* seq[i] with Python's 0-based index
PyIndex(s, i) == s[i + 1]

IndexOk(s, i) == 0 <= i /\ i < Len(s)

\* [corpus.target_idx[i] for i in corpus.target_ints]
AuthorsOf(idx, ints) == [k \in 1..Len(ints) |-> PyIndex(idx, ints[k])]

Cell(m, i, j) ==
    IF \E e \in m.nz : e[1] = i /\ e[2] = j
    THEN (CHOOSE e \in m.nz : e[1] = i /\ e[2] = j)[3]
    ELSE 0

\* X.toarray(): the dense rows, zeros where nothing is stored
toarray(m) == [i \in 1..m.shape[1] |-> [j \in 1..m.shape[2] |-> Cell(m, i, j)]]

\* (titles, authors, words, X.toarray())
DumpTuple(t, a, w, m) == <<t, a, w, toarray(m)>>

----------------------------------------------------------------------------
(* Control flow *)

Program ==
    <<"import_corpus", "construct", "add_directory", "preprocess", "tokenize",
      "vectorize", "get_X", "print_shape", "get_titles", "print_titles",
      "build_authors", "print_authors", "get_words", "print_words",
      "import_pickle", "build_tuple", "open", "dump">>

\* vectorize called before tokenize
ProgramVectorizeFirst ==
    <<"import_corpus", "construct", "add_directory", "preprocess", "vectorize",
      "tokenize", "get_X", "print_shape", "get_titles", "print_titles",
      "build_authors", "print_authors", "get_words", "print_words",
      "import_pickle", "build_tuple", "open", "dump">>

\* the file opened before the tuple is built
ProgramOpenFirst ==
    <<"import_corpus", "construct", "add_directory", "preprocess", "tokenize",
      "vectorize", "get_X", "print_shape", "get_titles", "print_titles",
      "build_authors", "print_authors", "get_words", "print_words",
      "import_pickle", "open", "build_tuple", "dump">>

Succ(prog, p) ==
    LET k == CHOOSE i \in 1..Len(prog) : prog[i] = p
    IN  IF k = Len(prog) THEN "done" ELSE prog[k + 1]

NextPcVectorizeFirst(p) == Succ(ProgramVectorizeFirst, p)

NextPcOpenFirst(p) == Succ(ProgramOpenFirst, p)

\* the statement after p; falling off the end of the script ends the run
NextPc(p) == Succ(Program, p)

\* an except clause that swallows the exception and carries on
OnExceptionSwallow(p) == Succ(Program, p)

\* no try/except anywhere: an exception ends the script
OnException(p) == "failed"

\* sys.exit status: 0 at the end of the script, 1 after an uncaught exception
ExitAt(p) ==
    IF p = "done" THEN <<0>> ELSE IF p = "failed" THEN <<1>> ELSE exit

Running == pc \notin {"done", "failed"}

Terminated == ~Running

StageOrder == <<"add_directory", "preprocess", "tokenize", "vectorize", "dump">>

----------------------------------------------------------------------------
(* Initial state *)

Init ==
    /\ pc = Program[1]
    /\ corpus = EmptyCorpus
    /\ X = NoMatrix
    /\ titles = <<>>
    /\ authors = <<>>
    /\ words = <<>>
    /\ dumpArg = <<>>
    /\ written = 0
    /\ opens = 0
    /\ \E f \in InitialFiles :
          fs = [p \in Paths |-> IF p = TargetPath THEN f ELSE OldArtifact]
    /\ fs0 = fs
    /\ stdout = <<>>
    /\ log = <<>>
    /\ failedAt = <<>>
    /\ exit = <<>>

\* control moves to the next statement
Step(p) ==
    /\ pc = p
    /\ pc' = NextPc(p)
    /\ exit' = ExitAt(pc')
    /\ UNCHANGED <<fs0, failedAt>>

----------------------------------------------------------------------------
(* The statements *)

\* line 1: from pystyl.corpus import Corpus
ImportCorpus ==
    /\ Step("import_corpus")
    /\ UNCHANGED <<corpus, X, titles, authors, words, dumpArg, written, opens,
                   fs, stdout, log>>

\* line 2: corpus = Corpus(language='en')
Construct ==
    /\ Step("construct")
    /\ corpus' = EmptyCorpus
    /\ UNCHANGED <<X, titles, authors, words, dumpArg, written, opens,
                   fs, stdout, log>>

\* line 3: corpus.add_directory('data/victorian')
AddDirectory ==
    /\ Step("add_directory")
    /\ \E t \in Seqs(TitleNames, MaxDocs), idx \in Prefixes(AuthorNames),
          ints \in Seqs(0..(Len(AuthorNames) - 1), MaxDocs) :
          corpus' = [corpus EXCEPT !.titles = t, !.target_idx = idx,
                                   !.target_ints = ints]
    /\ log' = Append(log, "add_directory")
    /\ UNCHANGED <<X, titles, authors, words, dumpArg, written, opens,
                   fs, stdout>>

\* line 4: corpus.preprocess()
Preprocess ==
    /\ Step("preprocess")
    /\ log' = Append(log, "preprocess")
    /\ UNCHANGED <<corpus, X, titles, authors, words, dumpArg, written, opens,
                   fs, stdout>>

\* line 5: corpus.tokenize(max_size=50000)
Tokenize ==
    /\ Step("tokenize")
    /\ log' = Append(log, "tokenize")
    /\ UNCHANGED <<corpus, X, titles, authors, words, dumpArg, written, opens,
                   fs, stdout>>

\* line 6: corpus.vectorize(mfi=100, ngram_type='word', vector_space='tf')
Vectorize ==
    /\ Step("vectorize")
    /\ \E m \in SparseSamples, fn \in Prefixes(TermNames) :
          corpus' = [corpus EXCEPT !.X = m, !.feature_names = fn]
    /\ log' = Append(log, "vectorize")
    /\ UNCHANGED <<X, titles, authors, words, dumpArg, written, opens,
                   fs, stdout>>

\* line 7: X = corpus.vectorizer.X
GetX ==
    /\ Step("get_X")
    /\ X' = corpus.X
    /\ UNCHANGED <<corpus, titles, authors, words, dumpArg, written, opens,
                   fs, stdout, log>>

\* line 8: print(X.shape)
PrintShape ==
    /\ Step("print_shape")
    /\ stdout' = Append(stdout, X.shape)
    /\ UNCHANGED <<corpus, X, titles, authors, words, dumpArg, written, opens,
                   fs, log>>

\* line 9: titles = corpus.titles
GetTitles ==
    /\ Step("get_titles")
    /\ titles' = corpus.titles
    /\ UNCHANGED <<corpus, X, authors, words, dumpArg, written, opens,
                   fs, stdout, log>>

\* line 10: print(titles)
PrintTitles ==
    /\ Step("print_titles")
    /\ stdout' = Append(stdout, titles)
    /\ UNCHANGED <<corpus, X, titles, authors, words, dumpArg, written, opens,
                   fs, log>>

\* line 11: authors = [corpus.target_idx[i] for i in corpus.target_ints]
\* (an index past the end of target_idx raises IndexError: see Raise)
BuildAuthors ==
    /\ Step("build_authors")
    /\ \A k \in 1..Len(corpus.target_ints) :
          IndexOk(corpus.target_idx, corpus.target_ints[k])
    /\ authors' = AuthorsOf(corpus.target_idx, corpus.target_ints)
    /\ UNCHANGED <<corpus, X, titles, words, dumpArg, written, opens,
                   fs, stdout, log>>

\* line 12: print(authors)
PrintAuthors ==
    /\ Step("print_authors")
    /\ stdout' = Append(stdout, authors)
    /\ UNCHANGED <<corpus, X, titles, authors, words, dumpArg, written, opens,
                   fs, log>>

\* line 13: words = corpus.vectorizer.feature_names
GetWords ==
    /\ Step("get_words")
    /\ words' = corpus.feature_names
    /\ UNCHANGED <<corpus, X, titles, authors, dumpArg, written, opens,
                   fs, stdout, log>>

\* line 14: print(words)
PrintWords ==
    /\ Step("print_words")
    /\ stdout' = Append(stdout, words)
    /\ UNCHANGED <<corpus, X, titles, authors, words, dumpArg, written, opens,
                   fs, log>>

\* line 15: import pickle
ImportPickle ==
    /\ Step("import_pickle")
    /\ UNCHANGED <<corpus, X, titles, authors, words, dumpArg, written, opens,
                   fs, stdout, log>>

\* line 16, first argument: (titles, authors, words, X.toarray())
BuildTuple ==
    /\ Step("build_tuple")
    /\ dumpArg' = DumpTuple(titles, authors, words, X)
    /\ UNCHANGED <<corpus, X, titles, authors, words, written, opens,
                   fs, stdout, log>>

\* line 16, second argument: open("dummy.p", "wb")
OpenFile ==
    /\ Step("open")
    /\ fs' = [fs EXCEPT ![TargetPath] = OpenWB(@)]
    /\ opens' = opens + 1
    /\ written' = 0
    /\ UNCHANGED <<corpus, X, titles, authors, words, dumpArg,
                   stdout, log>>

\* line 16, inside pickle.dump: the next component goes to the file
DumpWrite ==
    /\ pc = "dump"
    /\ written < Len(dumpArg)
    /\ fs' = [fs EXCEPT ![TargetPath].items = Append(@, dumpArg[written + 1])]
    /\ written' = written + 1
    /\ UNCHANGED <<pc, corpus, X, titles, authors, words, dumpArg, opens,
                   fs0, stdout, log, failedAt, exit>>

\* line 16, pickle.dump returns: STOP is written, the file object is dropped
\* and closed, and the script ends
DumpReturn ==
    /\ Step("dump")
    /\ written = Len(dumpArg)
    /\ fs' = [fs EXCEPT ![TargetPath].stop = TRUE]
    /\ log' = Append(log, "dump")
    /\ UNCHANGED <<corpus, X, titles, authors, words, dumpArg, written, opens,
                   stdout>>

\* any statement raises: nothing it was doing is undone
Raise ==
    /\ Running
    /\ pc' = OnException(pc)
    /\ failedAt' = <<pc>>
    /\ exit' = ExitAt(pc')
    /\ UNCHANGED <<corpus, X, titles, authors, words, dumpArg, written, opens,
                   fs, fs0, stdout, log>>

Next ==
    \/ ImportCorpus
    \/ Construct
    \/ AddDirectory
    \/ Preprocess
    \/ Tokenize
    \/ Vectorize
    \/ GetX
    \/ PrintShape
    \/ GetTitles
    \/ PrintTitles
    \/ BuildAuthors
    \/ PrintAuthors
    \/ GetWords
    \/ PrintWords
    \/ ImportPickle
    \/ BuildTuple
    \/ OpenFile
    \/ DumpWrite
    \/ DumpReturn
    \/ Raise

Spec == Init /\ [][Next]_vars

----------------------------------------------------------------------------
(* Properties *)

BeforeOpen ==
    {"import_corpus", "construct", "add_directory", "preprocess", "tokenize",
     "vectorize", "get_X", "print_shape", "get_titles", "print_titles",
     "build_authors", "print_authors", "get_words", "print_words",
     "import_pickle", "build_tuple"}

\* C1, as amended: the stages that have returned are always an initial part
\* of load, preprocess, tokenize, vectorize, serialize (none skipped, repeated
\* or reordered among those that ran); a stage is about to run only when
\* exactly the stages before it have returned; and a run that ends without an
\* exception has run all five, each once.  Later stages are missing only in a
\* run that failed.
C1_StagesInOrderUntilFailure ==
    /\ IsPrefix(log, StageOrder)
    /\ \A k \in 1..Len(StageOrder) :
          pc = StageOrder[k] => log = SubSeq(StageOrder, 1, k - 1)
    /\ pc = "done" => log = StageOrder
    /\ (Terminated /\ log # StageOrder) => pc = "failed"

C1_Witness == pc = "done" /\ log = StageOrder /\ exit = <<0>>

\* C1, as stated: in every run, failed ones included, all five stages have
\* run, each exactly once and in order, when the script ends.
C1_Original ==
    /\ IsPrefix(log, StageOrder)
    /\ Terminated => log = StageOrder

\* C2, as stated: dummy.p is opened only after load, preprocess, tokenize and
\* vectorize returned, and whenever the script has ended, dummy.p is either
\* what it was before the run or the complete pickle of (titles, authors,
\* words, dense matrix); no failure leaves a truncated or partial file.
C2_NoPartialOutput ==
    /\ opens > 0 => IsPrefix(SubSeq(StageOrder, 1, 4), log)
    /\ Terminated =>
          \/ fs[TargetPath] = fs0[TargetPath]
          \/ fs[TargetPath] = CompleteFile(<<titles, authors, words, toarray(X)>>)

\* C8: an exception is fatal.  Once a statement has raised, the script is in
\* its failed end state with a nonzero exit status, and from there nothing
\* runs again: no later stage, no retry.  The exit status is 0 exactly when
\* the script reached its end with all five stages returned.
C8_FailureIsFatal ==
    /\ [](/\ failedAt # <<>> => pc = "failed"
          /\ pc = "failed" => (exit # <<>> /\ exit # <<0>>)
          /\ exit = <<0>> <=> (pc = "done" /\ log = StageOrder)
          /\ exit # <<>> <=> Terminated)
    /\ [][pc = "failed" => (pc' = "failed" /\ log' = log /\ exit' = exit)]_vars

C8_Witness ==
    /\ pc = "failed"
    /\ failedAt = <<"tokenize">>
    /\ log = <<"add_directory", "preprocess">>
    /\ exit = <<1>>

C10_FailureBeforeWriteKeepsFile ==
    /\ opens = 0 => fs = fs0
    /\ (pc = "failed" /\ failedAt[1] \in BeforeOpen) => fs = fs0
    /\ opens > 0 => dumpArg = <<titles, authors, words, toarray(X)>>

C10_Witness ==
    /\ pc = "failed"
    /\ failedAt = <<"build_tuple">>
    /\ fs0[TargetPath] = OldArtifact
    /\ fs[TargetPath] = OldArtifact

====
